---- MODULE Spec2Model ----
(***************************************************************************)
(* Model of the Monitor metrics agent: the sampling loop of main.c, the   *)
(* guarded gauge writes of expose_metrics.c, the readers and rate         *)
(* trackers of metrics.c and the configuration loader of json_cfg.c.      *)
(*                                                                         *)
(* A C double is a record [n, d]: the rational n/d in lowest terms, with   *)
(* d = 0 for the IEEE specials (n = 1: +inf, n = -1: -inf, n = 0: NaN).    *)
(* An unsigned long long is an integer modulo 2^ULLBits.                   *)
(***************************************************************************)
EXTENDS Integers, Sequences, FiniteSets, TLC

\* ------------------------------------------------------------------ bounds
\* Width of unsigned long long in the model (64 in the build).
ULLBits == 12
\* Longest metrics array of a configuration document.
MaxMetrics == 2
\* Most CPU clock ticks the tracker of get_average_bandwidth is let to see.
MaxTicks == 2
\* Sampling cycles a run is followed for.
MaxCycles == 3

\* ------------------------------------------------------- program constants
MIN_VALUE == 0
INICIAL_VALUE == 0
ERROR_INT == -1
SECTOR_SIZE == 512
PORCENTAGE_INT == 100
SLEEP_TIME == 1
PUERTO == 8000
CLOCKS_PER_SEC == 1000000

\* A labelled field of a pseudo-file or of a JSON document is <<v>> when the
\* label is there and Absent when it is not.
Absent == <<>>

ULLMod == 2 ^ ULLBits
ULLONG_MAX == ULLMod - 1

\* Conversion of a C int to unsigned long long (metrics.c: return ERROR_INT).
ToULL(i) == i % ULLMod

\* ----------------------------------------------------------------- doubles
Abs(i) == IF i < 0 THEN -i ELSE i

Sign(i) == IF i < 0 THEN -1 ELSE IF i > 0 THEN 1 ELSE 0

\* (x and y bind the arguments, so that each is evaluated once per level.)
RECURSIVE GCD(_, _)
GCD(a, b) ==
    CHOOSE g \in {IF y = 0 THEN x ELSE GCD(y, x % y) : x \in {a}, y \in {b}} : TRUE

\* The double n/d; d = 0 gives the IEEE result of a division by zero.
Dbl(n, d) ==
    IF d = 0 THEN [n |-> Sign(n), d |-> 0]
    ELSE LET s == IF d < 0 THEN -1 ELSE 1
             g == GCD(Abs(n), Abs(d))
         IN [n |-> (s * n) \div g, d |-> (s * d) \div g]

FromInt(i) == [n |-> i, d |-> 1]

ERROR_FLOAT == FromInt(-1)

IsNaN(x) == x.d = 0 /\ x.n = 0

\* x / y for a finite x (every division of metrics.c has a finite dividend).
DDiv(x, y) ==
    IF y.n = 0 THEN Dbl(x.n, 0)
    ELSE LET g1 == GCD(Abs(x.n), Abs(y.n))
             g2 == GCD(x.d, y.d)
         IN IF x.n = 0 THEN Dbl(0, 1)
            ELSE Dbl((x.n \div g1) * (y.d \div g2), (x.d \div g2) * (y.n \div g1))

DMulInt(x, k) == Dbl(x.n * k, x.d)

\* An update that publishes whatever its reader returned.
DGeqMinUnchecked(x) == TRUE

\* The C comparison x >= MIN_VALUE on a double: false for NaN.
DGeqMin(x) == ~IsNaN(x) /\ x.n >= MIN_VALUE

DLess(x, y) == ~IsNaN(x) /\ ~IsNaN(y) /\ x # y /\
    IF x.d = 0 THEN x.n < 0 /\ (y.d # 0 \/ y.n > 0)
    ELSE IF y.d = 0 THEN y.n > 0
    ELSE x.n * y.d < y.n * x.d

\* ------------------------------------------------------ kernel pseudo-files
\* One snapshot of what the kernel shows: whether each pseudo-file opens, and
\* the fields the readers scan for (Absent: the label is not in the file).
\*   cpu        the eight jiffies fields of the first line of /proc/stat, or
\*              <<>> when that line does not parse
\*   sda        the /proc/diskstats lines of device sda: completed reads and
\*              writes (columns 4, 8) and sectors read and written (6, 10)
\*   ifaces     the interface lines of /proc/net/dev
\*   ticks      the CPU clock ticks (clock()) the process used between the
\*              snapshot before and this one: at least one, a cycle of
\*              the loop runs in between
BootKernel ==
    [stat_open |-> TRUE, cpu |-> <<1, 0, 0, 1, 0, 0, 0, 0>>, ctxt |-> <<3>>, processes |-> <<2>>,
     meminfo_open |-> TRUE, MemTotal |-> <<10>>, MemAvailable |-> <<4>>,
     diskstats_open |-> TRUE, popen_ok |-> TRUE,
     sda |-> << [rd_ios |-> 1, wr_ios |-> 1, rd_sec |-> 3, wr_sec |-> 2] >>,
     netdev_open |-> TRUE, ifaces |-> << [rx |-> 2, tx |-> 1] >>,
     vmstat_open |-> TRUE, pgfault |-> <<5>>, pgmajfault |-> <<1>>,
     ticks |-> 1]

LaterKernel ==
    [stat_open |-> TRUE, cpu |-> <<2, 0, 0, 2, 0, 0, 0, 0>>, ctxt |-> <<4>>, processes |-> <<3>>,
     meminfo_open |-> TRUE, MemTotal |-> <<10>>, MemAvailable |-> <<5>>,
     diskstats_open |-> TRUE, popen_ok |-> TRUE,
     sda |-> << [rd_ios |-> 2, wr_ios |-> 1, rd_sec |-> 4, wr_sec |-> 2] >>,
     netdev_open |-> TRUE, ifaces |-> << [rx |-> 2, tx |-> 1], [rx |-> 1, tx |-> 0] >>,
     vmstat_open |-> TRUE, pgfault |-> <<6>>, pgmajfault |-> <<2>>,
     ticks |-> 2]

\* Counters lower than at boot (a device or interface went away, a counter
\* was reset) and MemAvailable above MemTotal.
ResetKernel ==
    [stat_open |-> TRUE, cpu |-> <<1, 0, 0, 0, 0, 0, 0, 0>>, ctxt |-> <<1>>, processes |-> <<1>>,
     meminfo_open |-> TRUE, MemTotal |-> <<4>>, MemAvailable |-> <<5>>,
     diskstats_open |-> TRUE, popen_ok |-> TRUE,
     sda |-> << [rd_ios |-> 1, wr_ios |-> 0, rd_sec |-> 1, wr_sec |-> 0] >>,
     netdev_open |-> TRUE, ifaces |-> << [rx |-> 1, tx |-> 0] >>,
     vmstat_open |-> TRUE, pgfault |-> <<1>>, pgmajfault |-> <<0>>,
     ticks |-> 1]

\* No pseudo-file can be opened.
ClosedKernel ==
    [stat_open |-> FALSE, cpu |-> <<>>, ctxt |-> Absent, processes |-> Absent,
     meminfo_open |-> FALSE, MemTotal |-> Absent, MemAvailable |-> Absent,
     diskstats_open |-> FALSE, popen_ok |-> FALSE, sda |-> <<>>,
     netdev_open |-> FALSE, ifaces |-> <<>>,
     vmstat_open |-> FALSE, pgfault |-> Absent, pgmajfault |-> Absent, ticks |-> 1]

\* The counters in sampling cycle c of a run in which they only grow, and
\* grow by a different amount in every cycle.
GrowingKernel(c) ==
    [BootKernel EXCEPT !.cpu = <<c * c, 0, 0, c, 0, 0, 0, 0>>,
                       !.sda = << [rd_ios |-> c, wr_ios |-> 1, rd_sec |-> (c * c) \div 2, wr_sec |-> 0] >>,
                       !.ifaces = << [rx |-> c * c, tx |-> c] >>,
                       !.ticks = 1]

\* Every pseudo-file opens and none holds the line a reader scans for.
UnlabelledKernel ==
    [stat_open |-> TRUE, cpu |-> <<>>, ctxt |-> Absent, processes |-> Absent,
     meminfo_open |-> TRUE, MemTotal |-> Absent, MemAvailable |-> Absent,
     diskstats_open |-> TRUE, popen_ok |-> TRUE, sda |-> <<>>,
     netdev_open |-> TRUE, ifaces |-> <<>>,
     vmstat_open |-> TRUE, pgfault |-> Absent, pgmajfault |-> Absent, ticks |-> 2]

KernelStates == {BootKernel, LaterKernel, ResetKernel, ClosedKernel, UnlabelledKernel}

\* sscanf("<label> %llu") over the lines of a file: the variable keeps its
\* initial value when no line carries the label.
ScanLabel(field) == IF field = Absent THEN INICIAL_VALUE ELSE field[1]

Range(f) == {f[i] : i \in DOMAIN f}

RECURSIVE SumOver(_, _)
SumOver(lines, col) ==
    IF lines = <<>> THEN 0 ELSE (col[Head(lines)] + SumOver(Tail(lines), col)) % ULLMod

\* ---------------------------------------------------------------- metrics.c
\* Readers without state. Each yields what the C function returns: an
\* unsigned long long (an integer modulo ULLMod) or a double.
get_change_context(k) ==
    IF ~k.stat_open THEN ToULL(ERROR_INT)
    ELSE LET cambios == ScanLabel(k.ctxt)
         IN IF cambios = INICIAL_VALUE THEN ToULL(ERROR_INT) ELSE cambios

get_total_processes(k) ==
    IF ~k.stat_open THEN ToULL(ERROR_INT)
    ELSE LET processes == ScanLabel(k.processes)
         IN IF processes = INICIAL_VALUE THEN ToULL(ERROR_INT) ELSE processes

\* The scan assigns read and write on every sda line and breaks on none of
\* them (sscanf yields 2 there, not ASSIGNED_VALUE): the last line stays.
get_disk_stats(k) ==
    IF ~k.diskstats_open THEN ERROR_FLOAT
    ELSE LET n == Len(k.sda)
             read == IF n = 0 THEN INICIAL_VALUE ELSE k.sda[n].rd_ios
             write == IF n = 0 THEN INICIAL_VALUE ELSE k.sda[n].wr_ios
         IN IF read = INICIAL_VALUE THEN ERROR_FLOAT
            ELSE FromInt((read + write) % ULLMod)

get_memory_total(k) ==
    IF ~k.meminfo_open THEN ERROR_FLOAT
    ELSE LET total_mem == ScanLabel(k.MemTotal)
         IN IF total_mem = INICIAL_VALUE THEN ERROR_FLOAT ELSE FromInt(total_mem)

get_memory_avalible(k) ==
    IF ~k.meminfo_open THEN ERROR_FLOAT
    ELSE LET free_mem == ScanLabel(k.MemAvailable)
         IN IF free_mem = INICIAL_VALUE THEN ERROR_FLOAT ELSE FromInt(free_mem)

get_memory_usage(k) ==
    IF ~k.meminfo_open THEN ERROR_FLOAT
    ELSE LET total_mem == ScanLabel(k.MemTotal)
             free_mem == ScanLabel(k.MemAvailable)
         IN IF total_mem = INICIAL_VALUE \/ free_mem = INICIAL_VALUE THEN ERROR_FLOAT
            ELSE LET used_mem == (total_mem - free_mem) % ULLMod
                 IN DMulInt(Dbl(used_mem, total_mem), 100)

get_memory_usage_2(k) == DDiv(get_memory_usage(k), FromInt(PORCENTAGE_INT))

\* (rx_bytes + tx_bytes) / (ONE_KB * ONE_KB), the sum taken in double.
get_network_usage(k) ==
    IF ~k.netdev_open THEN ERROR_FLOAT
    ELSE LET rx_bytes == SumOver(k.ifaces, [l \in Range(k.ifaces) |-> l.rx])
             tx_bytes == SumOver(k.ifaces, [l \in Range(k.ifaces) |-> l.tx])
         IN Dbl(rx_bytes + tx_bytes, 1024 * 1024)

get_minor_page_faults(k) ==
    IF ~k.vmstat_open THEN ToULL(ERROR_INT) ELSE ScanLabel(k.pgfault)

get_major_page_faults(k) ==
    IF ~k.vmstat_open THEN ToULL(ERROR_INT) ELSE ScanLabel(k.pgmajfault)

\* Rate trackers. Each takes the snapshot and the function's static
\* variables and yields [ret, prev]: the value returned and the static
\* variables on return.
NoCpuSample == <<0, 0, 0, 0, 0, 0, 0, 0>>

Add(a, b) == (a + b) % ULLMod

Sub(a, b) == (a - b) % ULLMod

\* c = <<user, nice, system, idle, iowait, irq, softirq, steal>>
IdleTotalWithoutIowait(c) == c[4]

IdleTotal(c) == Add(c[4], c[5])

NonIdle(c) == Add(Add(Add(c[1], c[2]), Add(c[3], c[6])), Add(c[7], c[8]))

\* get_cpu_usage without the test of totald.
get_cpu_usage_unguarded(k, prev) ==
    IF ~k.stat_open \/ Len(k.cpu) < 8 THEN [ret |-> ERROR_FLOAT, prev |-> prev]
    ELSE LET prev_total == Add(IdleTotal(prev), NonIdle(prev))
             total == Add(IdleTotal(k.cpu), NonIdle(k.cpu))
             totald == Sub(total, prev_total)
             idled == Sub(IdleTotal(k.cpu), IdleTotal(prev))
         IN [ret |-> DMulInt(Dbl(Sub(totald, idled), totald), 100), prev |-> k.cpu]

get_cpu_usage(k, prev) ==
    IF ~k.stat_open \/ Len(k.cpu) < 8 THEN [ret |-> ERROR_FLOAT, prev |-> prev]
    ELSE LET prev_total == Add(IdleTotal(prev), NonIdle(prev))
             total == Add(IdleTotal(k.cpu), NonIdle(k.cpu))
             totald == Sub(total, prev_total)
             idled == Sub(IdleTotal(k.cpu), IdleTotal(prev))
         IN IF totald = INICIAL_VALUE THEN [ret |-> ERROR_FLOAT, prev |-> prev]
            ELSE [ret |-> DMulInt(Dbl(Sub(totald, idled), totald), 100),
                  prev |-> k.cpu]

NoDiskSample == [read_sectors |-> 0, write_sectors |-> 0]

\* The pipe "cat /proc/diskstats | grep -w 'sda'" is empty when the file
\* cannot be read.
get_disk_usage(k, prev) ==
    IF ~k.popen_ok THEN [ret |-> ERROR_FLOAT, prev |-> prev]
    ELSE LET lines == IF k.diskstats_open THEN k.sda ELSE <<>>
             read_sectors == SumOver(lines, [l \in Range(lines) |-> l.rd_sec])
             write_sectors == SumOver(lines, [l \in Range(lines) |-> l.wr_sec])
             delta_reads == Sub(read_sectors, prev.read_sectors)
             delta_writes == Sub(write_sectors, prev.write_sectors)
             total_sectors == Add(delta_reads, delta_writes)
         IN [ret |-> Dbl((total_sectors * SECTOR_SIZE) % ULLMod, 1024 * 1024),
             prev |-> [read_sectors |-> read_sectors, write_sectors |-> write_sectors]]

\* since: clock() - last_time, the CPU clock ticks the process used since
\* the call that last stored last_time (since its start, before any).
NoNetSample == [rx_bytes |-> 0, tx_bytes |-> 0, since |-> 0]

get_average_bandwidth(k, prev) ==
    IF ~k.netdev_open THEN [ret |-> ERROR_FLOAT, prev |-> prev]
    ELSE LET elapsed_time == Dbl(prev.since, CLOCKS_PER_SEC)
             rx_bytes == SumOver(k.ifaces, [l \in Range(k.ifaces) |-> l.rx])
             tx_bytes == SumOver(k.ifaces, [l \in Range(k.ifaces) |-> l.tx])
             delta_rx == Sub(rx_bytes, prev.rx_bytes)
             delta_tx == Sub(tx_bytes, prev.tx_bytes)
             total_bytes == Add(delta_rx, delta_tx)
             network_usage == Dbl(total_bytes, 1024 * 1024)
         IN [ret |-> DDiv(network_usage, elapsed_time),
             prev |-> [rx_bytes |-> rx_bytes, tx_bytes |-> tx_bytes, since |-> 0]]

\* --------------------------------------------------------------- json_cfg.c
\* Flags that are on at process start.
FlagsAllOn == [flag_bandwidth |-> TRUE, flag_change |-> TRUE, flag_cpu |-> TRUE, flag_disk |-> TRUE]

\* The four activation flags (json_cfg.c: 9-33), all false at process start.
NoFlags == [flag_bandwidth |-> FALSE, flag_change |-> FALSE, flag_cpu |-> FALSE, flag_disk |-> FALSE]

FlagStates == [flag_bandwidth : BOOLEAN, flag_change : BOOLEAN, flag_cpu : BOOLEAN, flag_disk : BOOLEAN]

\* The names load_config compares against, and one it does not know.
RecognizedNames == {"bandwidth_usage", "cpu_usage_percentage", "disk_usage_percentage", "change_contexts"}

UnknownName == "memory_total"

\* cJSON items.
JsonString(sv) == [type |-> "string", valuestring |-> sv, valueint |-> 0]

JsonNumber(i) == [type |-> "number", valuestring |-> "", valueint |-> i]

JsonArray(items) == [type |-> "array", items |-> items]

JsonNotArray == [type |-> "string", items |-> <<>>]

\* A configuration file: whether fopen succeeds, whether cJSON_Parse
\* succeeds, and the two fields of the parsed object (Absent or <<item>>).
MissingFile == [readable |-> FALSE, parses |-> FALSE, sampling_interval |-> Absent, metrics |-> Absent]

UnparseableFile == [readable |-> TRUE, parses |-> FALSE, sampling_interval |-> Absent, metrics |-> Absent]

JsonFile(si, ms) == [readable |-> TRUE, parses |-> TRUE, sampling_interval |-> si, metrics |-> ms]

IntervalFields == {Absent, <<JsonString("5")>>} \cup {<<JsonNumber(i)>> : i \in -1 .. 2}

ArrayElements == {JsonString(n) : n \in RecognizedNames \cup {UnknownName}} \cup {JsonNumber(7)}

MetricsFields ==
    {Absent, <<JsonNotArray>>} \cup
    {<<JsonArray(a)>> : a \in UNION {[1 .. n -> ArrayElements] : n \in 0 .. MaxMetrics}}

Docs ==
    {MissingFile, UnparseableFile} \cup
    {JsonFile(si, ms) : si \in IntervalFields, ms \in MetricsFields}

\* The Config a load returns: NULL, or <<the struct>>.
NULL == <<>>

\* What a read of config->metrics[i] can find in a slot the copy loop never
\* assigned (the array comes from malloc): a pointer that cannot be read, or
\* a pointer to some string.
Unreadable == "<unreadable>"

Unassigned == RecognizedNames \cup {UnknownName, Unreadable}

\* sampling_interval of the Config (json_cfg.c: 71-80).
IntervalOfDefaultZero(field) ==
    IF field # Absent /\ field[1].type = "number" THEN field[1].valueint ELSE 0

IntervalOf(field) ==
    IF field # Absent /\ field[1].type = "number" THEN field[1].valueint ELSE 1

\* The metrics arrays the copy loop can leave in memory (json_cfg.c: 82-102):
\* a string element is copied, any other element leaves its slot unassigned.
MetricsInMemory(field) ==
    IF field # Absent /\ field[1].type = "array"
    THEN LET items == field[1].items
         IN {mem \in [1 .. Len(items) -> Unassigned] :
                \A i \in 1 .. Len(items) :
                    items[i].type = "string" => mem[i] = items[i].valuestring}
    ELSE {<<>>}

\* "Inicializar banderas a false" (json_cfg.c: 104-108).
ResetFlagsKeeps(fl) == fl

ResetFlags(fl) == NoFlags

\* One turn of the loop over the metrics (json_cfg.c: 113-132).
SetFlag(fl, name) ==
    IF name = "bandwidth_usage" THEN [fl EXCEPT !.flag_bandwidth = TRUE]
    ELSE IF name = "cpu_usage_percentage" THEN [fl EXCEPT !.flag_cpu = TRUE]
    ELSE IF name = "disk_usage_percentage" THEN [fl EXCEPT !.flag_disk = TRUE]
    ELSE IF name = "change_contexts" THEN [fl EXCEPT !.flag_change = TRUE]
    ELSE fl

\* The loop of json_cfg.c: 111-133 from entry i on: strcmp on an unreadable
\* pointer ends the process.
RECURSIVE FlagLoop(_, _, _)
FlagLoop(mem, i, fl) ==
    IF i > Len(mem) THEN [flags |-> fl, crashed |-> FALSE]
    ELSE IF mem[i] = Unreadable THEN [flags |-> fl, crashed |-> TRUE]
    ELSE FlagLoop(mem, i + 1, SetFlag(fl, mem[i]))

\* load_config with the flags reset before the file is opened and parsed.
load_config_resets_first(doc, fl) ==
    IF ~doc.readable \/ ~doc.parses
    THEN {[config |-> NULL, flags |-> NoFlags, crashed |-> FALSE]}
    ELSE {LET r == FlagLoop(mem, 1, NoFlags)
          IN [config |-> <<[sampling_interval |-> IntervalOf(doc.sampling_interval),
                            metrics |-> mem, metrics_count |-> Len(mem)]>>,
              flags |-> r.flags, crashed |-> r.crashed] :
          mem \in MetricsInMemory(doc.metrics)}

\* load_config(filename) called with the flags at fl: the set of outcomes
\* [config, flags, crashed] the build can produce.
load_config(doc, fl) ==
    IF ~doc.readable \/ ~doc.parses
    THEN {[config |-> NULL, flags |-> fl, crashed |-> FALSE]}
    ELSE {LET r == FlagLoop(mem, 1, ResetFlags(fl))
          IN [config |-> <<[sampling_interval |-> IntervalOf(doc.sampling_interval),
                            metrics |-> mem, metrics_count |-> Len(mem)]>>,
              flags |-> r.flags, crashed |-> r.crashed] :
          mem \in MetricsInMemory(doc.metrics)}

\* ------------------------------------------------------------------- state
VARIABLES
    pc,                \* main thread: where it is in main()
    idx,               \* main thread: which update of the loop body is next
    usage,             \* the local variable of the running update_*_gauge
    lock,              \* owner of the mutex lock of expose_metrics.c, or "free"
    gauge,             \* value of each Prometheus gauge
    registry,          \* gauges registered in the default collector registry
    flags,             \* flag_bandwidth, flag_change, flag_cpu, flag_disk
    sampling_interval, \* the interval main last passed to sleep
    kern,              \* what the kernel pseudo-files show
    tracker,           \* static variables of the three rate trackers
    expo,              \* the thread running expose_metrics
    served,            \* gauges rendered by the last scrape
    scenario,          \* which of kernel and configuration varies in this run
    cycle,             \* the sampling cycle main is in
    doc,               \* history: the file read by the last load_config
    config,            \* history: what the last load_config returned
    old_flags,         \* history: the flags when the last load_config began
    read_failed,       \* history: the last reader met a file it could not open
                       \*          or a label it did not find
    invoked,           \* history: readers called so far in this cycle
    writer,            \* history: the thread that wrote a gauge last
    called,            \* history: readers called since the process started
    old_tracker,       \* history: the trackers' static variables when the
                       \*          last reader was called
    metric_created,    \* gauges init_metrics created (the others are NULL)
    init_failure       \* history: the call of init_metrics that failed

vars == <<pc, idx, usage, lock, gauge, registry, flags, sampling_interval, kern,
          tracker, expo, served, scenario, cycle, doc, config, old_flags, read_failed,
          invoked, writer, called, old_tracker, metric_created, init_failure>>

\* A loop body that updates the disk statistics first.
OrderDiskStatsFirst ==
    <<"disk_stats", "bandwidth_usage", "change_contexts", "cpu_usage_percentage",
      "disk_usage_percentage", "memory_usage_percentage", "network_usage",
      "major_page_faults", "minor_page_faults", "memory_available",
      "memory_total", "memory_usage_2", "total_processes">>

\* The updates of the loop body of main, in its order (main.c: 82-102).
Order == <<"bandwidth_usage", "change_contexts", "cpu_usage_percentage",
           "disk_usage_percentage", "memory_usage_percentage", "network_usage",
           "major_page_faults", "minor_page_faults", "memory_available",
           "memory_total", "memory_usage_2", "disk_stats", "total_processes">>

Metrics == Range(Order)

Gated == {"bandwidth_usage", "change_contexts", "cpu_usage_percentage", "disk_usage_percentage"}

\* The flag main tests before a gated update (main.c: 82-93).
FlagOf(m, fl) ==
    IF m = "bandwidth_usage" THEN fl.flag_bandwidth
    ELSE IF m = "change_contexts" THEN fl.flag_change
    ELSE IF m = "cpu_usage_percentage" THEN fl.flag_cpu
    ELSE fl.flag_disk

\* The gauges init_metrics registers (expose_metrics.c: 470-481).
Registered == Metrics \ {"disk_stats"}

NoSamples == [cpu |-> NoCpuSample, disk |-> NoDiskSample, net |-> NoNetSample]

\* The order in which init_metrics creates the gauges (expose_metrics.c:
\* 372-466), the gauges whose failed creation makes it return at once
\* (425-466), and the order in which it registers them (470-481).
CreationOrder == <<"cpu_usage_percentage", "memory_usage_percentage", "disk_usage_percentage",
                   "network_usage", "bandwidth_usage", "major_page_faults",
                   "minor_page_faults", "change_contexts", "total_processes",
                   "memory_total", "memory_available", "memory_usage_2", "disk_stats">>

ReturnsOnFailure == {"change_contexts", "total_processes", "memory_total",
                     "memory_available", "memory_usage_2", "disk_stats"}

RegistrationOrder == <<"cpu_usage_percentage", "memory_usage_percentage", "disk_usage_percentage",
                       "network_usage", "bandwidth_usage", "major_page_faults",
                       "minor_page_faults", "change_contexts", "total_processes",
                       "memory_total", "memory_available", "memory_usage_2">>

\* The entries of a sequence of names that come before name m.
Before(order, m) == {order[i] : i \in {j \in DOMAIN order : \A k \in 1 .. j : order[k] # m}}

\* What can go wrong in one run of init_metrics: nothing, prom_gauge_new
\* yields NULL for one gauge, or the registration of one gauge yields NULL.
NoFailure == [step |-> "none", metric |-> "none"]

InitFailures ==
    {NoFailure} \cup {[step |-> "create", metric |-> m] : m \in Metrics}
                \cup {[step |-> "register", metric |-> m] : m \in Registered}

\* The state at process start, in a run of one of the scenarios.
Startup(scenarios) ==
    /\ pc = "init_metrics"
    /\ idx = 1
    /\ usage = FromInt(0)
    /\ lock = "free"
    /\ gauge = [m \in Metrics |-> FromInt(0)]
    /\ registry = {}
    /\ flags = NoFlags
    /\ sampling_interval = 1
    /\ scenario \in scenarios
    /\ kern \in IF scenario = "kernel" THEN KernelStates
               ELSE IF scenario = "gap" THEN {GrowingKernel(1)}
               ELSE {BootKernel}
    /\ cycle = 1
    /\ tracker = NoSamples
    /\ expo = "not_created"
    /\ served = {}
    /\ doc = MissingFile
    /\ config = NULL
    /\ old_flags = NoFlags
    /\ read_failed = FALSE
    /\ invoked = {}
    /\ writer = "none"
    /\ called = {}
    /\ old_tracker = NoSamples
    /\ metric_created = {}
    /\ init_failure = NoFailure

Init == Startup({"kernel", "config"})

\* The process runs until main returns or a signal ends it.
Running == pc \notin {"exit_failure", "crashed"}

\* ------------------------------------------------------- expose_metrics.c
\* init_metrics (expose_metrics.c: 355-486): the mutex is initialised, the
\* thirteen gauges are created at 0 and twelve of them are registered. In a
\* run of the "startup" scenario one creation or one registration may fail:
\*   - a NULL from prom_gauge_new for one of the first seven gauges is only
\*     reported; the NULL pointer is later handed to the registration, which
\*     the library answers with NULL or by ending the process;
\*   - a NULL from prom_gauge_new for one of the last six gauges makes
\*     init_metrics return, before any gauge is registered;
\*   - a NULL from a registration ends the chain of || (470-481): the
\*     gauges after it are not registered.
init_metrics ==
    /\ pc = "init_metrics"
    /\ lock' = "free"
    /\ gauge' = [m \in Metrics |-> FromInt(0)]
    /\ \E f \in IF scenario = "startup" THEN InitFailures ELSE {NoFailure} :
       \E survives \in BOOLEAN :
          /\ init_failure' = f
          /\ metric_created' = IF f.step # "create" THEN Metrics
                        ELSE IF f.metric \in ReturnsOnFailure
                             THEN Before(CreationOrder, f.metric)
                             ELSE Metrics \ {f.metric}
          /\ registry' = IF f.step = "none" THEN Registered
                         ELSE IF f.step = "create" /\ f.metric \in ReturnsOnFailure THEN {}
                         ELSE Before(RegistrationOrder, f.metric)
          /\ pc' = IF f.step = "create" /\ f.metric \notin ReturnsOnFailure /\ ~survives
                   THEN "crashed"
                   ELSE "create_thread"
    /\ UNCHANGED <<idx, usage, flags, sampling_interval, kern, tracker, expo, served, scenario, cycle,
                   doc, config, old_flags, read_failed, invoked, writer, called, old_tracker>>

\* A main that enters the loop whatever pthread_create returns.
CreateThreadUnchecked ==
    /\ pc = "create_thread"
    /\ \E created \in BOOLEAN :
          /\ pc' = "update"
          /\ expo' = IF created THEN "start_daemon" ELSE expo
    /\ UNCHANGED <<idx, usage, lock, gauge, registry, flags, sampling_interval, kern,
                   tracker, served, scenario, cycle, doc, config, old_flags, read_failed,
                   invoked, writer, called, old_tracker, metric_created, init_failure>>

\* pthread_create in main (main.c: 69-75).
CreateThread ==
    /\ pc = "create_thread"
    /\ \E created \in BOOLEAN :
          IF created
          THEN pc' = "update" /\ expo' = "start_daemon"
          ELSE pc' = "exit_failure" /\ expo' = expo
    /\ UNCHANGED <<idx, usage, lock, gauge, registry, flags, sampling_interval, kern,
                   tracker, served, scenario, cycle, doc, config, old_flags, read_failed, invoked, writer, called, old_tracker, metric_created, init_failure>>

\* The environment's part of a reader's failure: the pseudo-file cannot be
\* opened, or the line the reader scans for is not in it.
ReaderFails(m, k) ==
    CASE m \in {"bandwidth_usage", "network_usage"} -> ~k.netdev_open
      [] m = "change_contexts" -> ~k.stat_open \/ k.ctxt = Absent
      [] m = "total_processes" -> ~k.stat_open \/ k.processes = Absent
      [] m = "cpu_usage_percentage" -> ~k.stat_open \/ Len(k.cpu) < 8
      [] m = "disk_usage_percentage" -> ~k.popen_ok
      [] m = "disk_stats" -> ~k.diskstats_open \/ k.sda = <<>>
      [] m \in {"memory_usage_percentage", "memory_usage_2"} ->
            ~k.meminfo_open \/ k.MemTotal = Absent \/ k.MemAvailable = Absent
      [] m = "memory_total" -> ~k.meminfo_open \/ k.MemTotal = Absent
      [] m = "memory_available" -> ~k.meminfo_open \/ k.MemAvailable = Absent
      [] m = "major_page_faults" -> ~k.vmstat_open \/ k.pgmajfault = Absent
      [] m = "minor_page_faults" -> ~k.vmstat_open \/ k.pgfault = Absent

\* main goes on to the next update, and after the last one to the reload.
Advance ==
    /\ pc' = IF idx = Len(Order) THEN "reload" ELSE "update"
    /\ idx' = IF idx = Len(Order) THEN 1 ELSE idx + 1

\* The head of every update_*_gauge: the reader is called, its value is
\* stored in the local variable and compared with MIN_VALUE; when the test
\* fails the function prints its message and returns.
CallReader(m, value, passes, samples) ==
    /\ pc = "update"
    /\ Order[idx] = m
    /\ m \in Gated => FlagOf(m, flags)
    /\ usage' = value
    /\ tracker' = samples
    /\ invoked' = invoked \cup {m}
    /\ called' = called \cup {m}
    /\ old_tracker' = tracker
    /\ read_failed' = ReaderFails(m, kern)
    /\ IF passes THEN pc' = "lock" /\ idx' = idx ELSE Advance
    /\ UNCHANGED <<lock, gauge, registry, flags, sampling_interval, kern, expo, served, scenario, cycle,
                   doc, config, old_flags, writer, metric_created, init_failure>>

\* double usage = <reader>(); if (usage >= MIN_VALUE)
DoubleReader(m, value) == CallReader(m, value, DGeqMin(value), tracker)

\* double usage = <reader returning unsigned long long>(); if (usage >= MIN_VALUE)
UnsignedAsDouble(m, value) == CallReader(m, FromInt(value), DGeqMin(FromInt(value)), tracker)

\* unsigned long long faults = <reader>(); if (faults >= MIN_VALUE): the
\* comparison is unsigned, the value is converted when the gauge is set.
UnsignedReader(m, value) == CallReader(m, FromInt(value), value >= ToULL(MIN_VALUE), tracker)

update_bandwidth_gauge ==
    LET r == get_average_bandwidth(kern, tracker.net)
    IN CallReader("bandwidth_usage", r.ret, DGeqMin(r.ret), [tracker EXCEPT !.net = r.prev])

update_change_context_gauge == UnsignedAsDouble("change_contexts", get_change_context(kern))

update_cpu_gauge ==
    LET r == get_cpu_usage(kern, tracker.cpu)
    IN CallReader("cpu_usage_percentage", r.ret, DGeqMin(r.ret), [tracker EXCEPT !.cpu = r.prev])

update_disk_gauge ==
    LET r == get_disk_usage(kern, tracker.disk)
    IN CallReader("disk_usage_percentage", r.ret, DGeqMin(r.ret), [tracker EXCEPT !.disk = r.prev])

update_memory_gauge == DoubleReader("memory_usage_percentage", get_memory_usage(kern))

update_network_gauge == DoubleReader("network_usage", get_network_usage(kern))

update_major_page_faults_gauge == UnsignedReader("major_page_faults", get_major_page_faults(kern))

update_minor_page_faults_gauge == UnsignedReader("minor_page_faults", get_minor_page_faults(kern))

update_memory_avalible_gauge == DoubleReader("memory_available", get_memory_avalible(kern))

update_memory_total_gauge == DoubleReader("memory_total", get_memory_total(kern))

update_memory_2_gauge == DoubleReader("memory_usage_2", get_memory_usage_2(kern))

update_disk_stats_gauge == DoubleReader("disk_stats", get_disk_stats(kern))

update_total_processes_gauge == UnsignedAsDouble("total_processes", get_total_processes(kern))

\* A loop body that sets the gauge of a disabled metric to 0.
SkipGatedZeroesGauge ==
    /\ pc = "update"
    /\ Order[idx] \in Gated
    /\ ~FlagOf(Order[idx], flags)
    /\ gauge' = [gauge EXCEPT ![Order[idx]] = FromInt(0)]
    /\ Advance
    /\ UNCHANGED <<usage, lock, registry, flags, sampling_interval, kern, tracker,
                   expo, served, scenario, cycle, doc, config, old_flags, read_failed,
                   invoked, writer, called, old_tracker, metric_created, init_failure>>

\* A skipped update that clears the stored sample of the skipped metric.
SkipGatedForgetsSample ==
    /\ pc = "update"
    /\ Order[idx] \in Gated
    /\ ~FlagOf(Order[idx], flags)
    /\ tracker' = IF Order[idx] = "cpu_usage_percentage" THEN [tracker EXCEPT !.cpu = NoCpuSample]
                  ELSE IF Order[idx] = "disk_usage_percentage" THEN [tracker EXCEPT !.disk = NoDiskSample]
                  ELSE IF Order[idx] = "bandwidth_usage" THEN [tracker EXCEPT !.net = NoNetSample]
                  ELSE tracker
    /\ Advance
    /\ UNCHANGED <<usage, lock, gauge, registry, flags, sampling_interval, kern,
                   expo, served, scenario, cycle, doc, config, old_flags, read_failed,
                   invoked, writer, called, old_tracker, metric_created, init_failure>>

\* if (flag_...) { ... } with the flag off (main.c: 82-93).
SkipGated ==
    /\ pc = "update"
    /\ Order[idx] \in Gated
    /\ ~FlagOf(Order[idx], flags)
    /\ Advance
    /\ UNCHANGED <<usage, lock, gauge, registry, flags, sampling_interval, kern, tracker,
                   expo, served, scenario, cycle, doc, config, old_flags, read_failed, invoked, writer, called, old_tracker, metric_created, init_failure>>

\* pthread_mutex_lock(&lock)
MutexLock ==
    /\ pc = "lock"
    /\ lock = "free"
    /\ lock' = "main"
    /\ pc' = "set"
    /\ UNCHANGED <<idx, usage, gauge, registry, flags, sampling_interval, kern, tracker,
                   expo, served, scenario, cycle, doc, config, old_flags, read_failed, invoked, writer, called, old_tracker, metric_created, init_failure>>

\* prom_gauge_set(<metric>, usage, NULL). On a gauge that was never created
\* the pointer is NULL: the library writes nothing, and either returns or
\* ends the process.
GaugeSet ==
    /\ pc = "set"
    /\ IF Order[idx] \in metric_created
       THEN /\ gauge' = [gauge EXCEPT ![Order[idx]] = usage]
            /\ writer' = "main"
            /\ pc' = "unlock"
       ELSE /\ UNCHANGED <<gauge, writer>>
            /\ \E returns \in BOOLEAN : pc' = IF returns THEN "unlock" ELSE "crashed"
    /\ UNCHANGED <<idx, usage, lock, registry, flags, sampling_interval, kern, tracker,
                   expo, served, scenario, cycle, doc, config, old_flags, read_failed, invoked, called, old_tracker, metric_created, init_failure>>

\* An update that returns with the mutex still locked.
MutexUnlockForgotten ==
    /\ pc = "unlock"
    /\ Advance
    /\ UNCHANGED <<usage, lock, gauge, registry, flags, sampling_interval, kern, tracker,
                   expo, served, scenario, cycle, doc, config, old_flags, read_failed,
                   invoked, writer, called, old_tracker, metric_created, init_failure>>

\* pthread_mutex_unlock(&lock), and the return to main
MutexUnlock ==
    /\ pc = "unlock"
    /\ lock' = "free"
    /\ Advance
    /\ UNCHANGED <<usage, gauge, registry, flags, sampling_interval, kern, tracker,
                   expo, served, scenario, cycle, doc, config, old_flags, read_failed, invoked, writer, called, old_tracker, metric_created, init_failure>>

\* expose_metrics (expose_metrics.c: 321-343): the daemon is started, and
\* whether or not it started the thread sleeps for ever.
StartDaemon ==
    /\ Running
    /\ expo = "start_daemon"
    /\ \E started \in BOOLEAN : expo' = IF started THEN "serving" ELSE "no_daemon"
    /\ UNCHANGED <<pc, idx, usage, lock, gauge, registry, flags, sampling_interval, kern,
                   tracker, served, scenario, cycle, doc, config, old_flags, read_failed, invoked, writer, called, old_tracker, metric_created, init_failure>>

ExpoSleep ==
    /\ Running
    /\ expo \in {"serving", "no_daemon"}
    /\ UNCHANGED vars

\* A scrape that sets the gauges it renders back to 0.
ScrapeResetsGauges ==
    /\ Running
    /\ expo = "serving"
    /\ served' = registry
    /\ gauge' = [m \in Metrics |-> FromInt(0)]
    /\ writer' = "http"
    /\ UNCHANGED <<pc, idx, usage, lock, registry, flags, sampling_interval, kern,
                   tracker, expo, scenario, cycle, doc, config, old_flags, read_failed,
                   invoked, called, old_tracker, metric_created, init_failure>>

\* A scrape that renders the gauges under the lock of the updates and keeps
\* the lock.
ScrapeKeepsLock ==
    /\ Running
    /\ expo = "serving"
    /\ lock = "free"
    /\ lock' = "http"
    /\ served' = registry
    /\ UNCHANGED <<pc, idx, usage, gauge, registry, flags, sampling_interval, kern,
                   tracker, expo, scenario, cycle, doc, config, old_flags, read_failed,
                   invoked, writer, called, old_tracker, metric_created, init_failure>>

\* A scrape answered by the daemon: every registered gauge is rendered.
Scrape ==
    /\ Running
    /\ expo = "serving"
    /\ served' = registry
    /\ UNCHANGED <<pc, idx, usage, lock, gauge, registry, flags, sampling_interval, kern,
                   tracker, expo, scenario, cycle, doc, config, old_flags, read_failed, invoked, writer, called, old_tracker, metric_created, init_failure>>

\* ------------------------------------------------------------------ main.c
\* What config.json can hold when the loop reads it. In a run of the
\* "kernel" scenario the file enables the four gated metrics and the kernel
\* snapshot varies freely; in a run of the "config" scenario the file varies
\* and the kernel counters move between two snapshots; in a run of the
\* "startup" scenario neither varies, and init_metrics may fail; in a run of
\* the "gap" scenario the file enables the four gated metrics or none, the
\* kernel counters only grow, and the run is followed one cycle longer.
AllGatedDoc ==
    JsonFile(<<JsonNumber(1)>>,
             <<JsonArray(<<JsonString("bandwidth_usage"), JsonString("change_contexts"),
                           JsonString("cpu_usage_percentage"),
                           JsonString("disk_usage_percentage")>>)>>)

ConfigDocs ==
    {MissingFile,
     UnparseableFile,
     JsonFile(Absent, Absent),
     JsonFile(<<JsonNumber(1)>>, <<JsonArray(<<JsonString("cpu_usage_percentage")>>)>>),
     JsonFile(<<JsonNumber(0)>>, <<JsonArray(<<>>)>>),
     JsonFile(<<JsonNumber(2)>>,
              <<JsonArray(<<JsonString("bandwidth_usage"), JsonString("change_contexts")>>)>>),
     JsonFile(<<JsonNumber(-1)>>,
              <<JsonArray(<<JsonString(UnknownName), JsonString("disk_usage_percentage")>>)>>),
     JsonFile(<<JsonString("5")>>, <<JsonArray(<<JsonNumber(7)>>)>>)}

NoGatedDoc == JsonFile(<<JsonNumber(1)>>, <<JsonArray(<<>>)>>)

MainDocs ==
    IF scenario = "config" THEN ConfigDocs
    ELSE IF scenario = "gap" THEN {AllGatedDoc, NoGatedDoc}
    ELSE {AllGatedDoc}

KernelAfter(k) ==
    IF scenario = "kernel" THEN KernelStates
    ELSE IF scenario = "gap" THEN {GrowingKernel(cycle + 1)}
    ELSE {IF k = BootKernel THEN LaterKernel ELSE BootKernel}

\* update_flags_from_json(config_filename) (main.c: 104): the configuration
\* is loaded by load_config, which sets the flags.
update_flags_from_json ==
    /\ pc = "reload"
    /\ \E d \in MainDocs : \E r \in load_config(d, flags) :
          /\ doc' = d
          /\ config' = r.config
          /\ old_flags' = flags
          /\ flags' = r.flags
          /\ pc' = IF r.crashed THEN "crashed" ELSE "sleep"
    /\ UNCHANGED <<idx, usage, lock, gauge, registry, sampling_interval, kern, tracker,
                   expo, served, scenario, cycle, read_failed, invoked, writer, called, old_tracker, metric_created, init_failure>>

\* read_sampling_interval(config_filename): the sampling_interval of the
\* loaded Config, and the interval used before when the load fails.
read_sampling_interval(d, previous) ==
    IF ~d.readable \/ ~d.parses THEN previous ELSE IntervalOf(d.sampling_interval)

\* The last sampling cycle a run is followed into.
LastCycle == IF scenario = "gap" THEN MaxCycles + 1 ELSE MaxCycles

\* A sleep step that switches the four flags off.
SleepResetsFlags ==
    /\ pc = "sleep"
    /\ cycle < LastCycle
    /\ sampling_interval' = read_sampling_interval(doc, sampling_interval)
    /\ flags' = NoFlags
    /\ \E k \in KernelAfter(kern) :
          /\ kern' = k
          /\ tracker' = [tracker EXCEPT
                            !.net.since = IF @ + k.ticks > MaxTicks THEN MaxTicks ELSE @ + k.ticks]
    /\ cycle' = cycle + 1
    /\ invoked' = {}
    /\ pc' = "update"
    /\ UNCHANGED <<idx, usage, lock, gauge, registry, expo, served, scenario, doc,
                   config, old_flags, read_failed, writer, called, old_tracker,
                   metric_created, init_failure>>

\* sleep(read_sampling_interval(config_filename)) (main.c: 105), the file
\* being as update_flags_from_json found it. While the loop sleeps the kernel
\* counters move on and the CPU clock of the process advances.
Sleep ==
    /\ pc = "sleep"
    /\ cycle < LastCycle
    /\ sampling_interval' = read_sampling_interval(doc, sampling_interval)
    /\ \E k \in KernelAfter(kern) :
          /\ kern' = k
          /\ tracker' = [tracker EXCEPT
                            !.net.since = IF @ + k.ticks > MaxTicks THEN MaxTicks ELSE @ + k.ticks]
    /\ cycle' = cycle + 1
    /\ invoked' = {}
    /\ pc' = "update"
    /\ UNCHANGED <<idx, usage, lock, gauge, registry, flags, expo, served, scenario, doc,
                   config, old_flags, read_failed, writer, called, old_tracker, metric_created, init_failure>>

Next ==
    \/ init_metrics
    \/ CreateThread
    \/ update_bandwidth_gauge
    \/ update_change_context_gauge
    \/ update_cpu_gauge
    \/ update_disk_gauge
    \/ update_memory_gauge
    \/ update_network_gauge
    \/ update_major_page_faults_gauge
    \/ update_minor_page_faults_gauge
    \/ update_memory_avalible_gauge
    \/ update_memory_total_gauge
    \/ update_memory_2_gauge
    \/ update_disk_stats_gauge
    \/ update_total_processes_gauge
    \/ SkipGated
    \/ MutexLock
    \/ GaugeSet
    \/ MutexUnlock
    \/ update_flags_from_json
    \/ Sleep
    \/ StartDaemon
    \/ ExpoSleep
    \/ Scrape

Spec == Init /\ [][Next]_vars

\* The steps of the thread running main. A thread that can take a step
\* takes one in the end: the scheduler starves no runnable thread and
\* sleep returns.
MainStep ==
    \/ init_metrics
    \/ CreateThread
    \/ update_bandwidth_gauge
    \/ update_change_context_gauge
    \/ update_cpu_gauge
    \/ update_disk_gauge
    \/ update_memory_gauge
    \/ update_network_gauge
    \/ update_major_page_faults_gauge
    \/ update_minor_page_faults_gauge
    \/ update_memory_avalible_gauge
    \/ update_memory_total_gauge
    \/ update_memory_2_gauge
    \/ update_disk_stats_gauge
    \/ update_total_processes_gauge
    \/ SkipGated
    \/ MutexLock
    \/ GaugeSet
    \/ MutexUnlock
    \/ update_flags_from_json
    \/ Sleep

FairSpec == Spec /\ WF_vars(MainStep)

\* --------------------------------------------- a start that may go wrong
\* The program from its start, with one creation or one registration of
\* init_metrics allowed to fail.
StartInit == Startup({"startup"})

StartSpec == StartInit /\ [][Next]_vars

\* ------------------------------------- metrics switched off and on again
\* The program from its start, config.json switching the gated metrics on
\* and off between the cycles while the kernel counters grow.
GapInit == Startup({"gap"})

GapSpec == GapInit /\ [][Next]_vars

\* ------------------------------------------------ load_config on its own
\* One call of load_config: on any configuration file of Docs, with the four
\* flags in any combination.
LoadInit ==
    /\ pc = "load_config"
    /\ flags \in FlagStates
    /\ doc \in Docs
    /\ config = NULL
    /\ old_flags = flags
    /\ idx = 1
    /\ usage = FromInt(0)
    /\ lock = "free"
    /\ gauge = [m \in Metrics |-> FromInt(0)]
    /\ registry = Registered
    /\ sampling_interval = 1
    /\ scenario = "config"
    /\ kern = BootKernel
    /\ cycle = 1
    /\ tracker = NoSamples
    /\ expo = "serving"
    /\ served = {}
    /\ read_failed = FALSE
    /\ invoked = {}
    /\ writer = "none"
    /\ called = {}
    /\ old_tracker = NoSamples
    /\ metric_created = Metrics
    /\ init_failure = NoFailure

LoadConfig ==
    /\ pc = "load_config"
    /\ \E r \in load_config(doc, flags) :
          /\ config' = r.config
          /\ old_flags' = flags
          /\ flags' = r.flags
          /\ pc' = IF r.crashed THEN "crashed" ELSE "loaded"
    /\ UNCHANGED <<idx, usage, lock, gauge, registry, sampling_interval, kern, tracker,
                   expo, served, scenario, cycle, doc, read_failed, invoked, writer, called, old_tracker, metric_created, init_failure>>

LoadNext == LoadConfig

LoadSpec == LoadInit /\ [][LoadNext]_vars

\* ------------------------------------- load_config twice on the same file
\* A second call of load_config on the file the first call loaded, the flags
\* being as the first call left them.
LoadConfigAgain ==
    /\ pc = "loaded"
    /\ \E r \in load_config(doc, flags) :
          /\ config' = r.config
          /\ old_flags' = flags
          /\ flags' = r.flags
          /\ pc' = IF r.crashed THEN "crashed" ELSE "reloaded"
    /\ UNCHANGED <<idx, usage, lock, gauge, registry, sampling_interval, kern, tracker,
                   expo, served, scenario, cycle, doc, read_failed, invoked, writer, called,
                   old_tracker, metric_created, init_failure>>

ReloadNext ==
    \/ LoadConfig
    \/ LoadConfigAgain

ReloadSpec == LoadInit /\ [][ReloadNext]_vars

\* ---------------------------------------------- get_cpu_usage on its own
\* One call of get_cpu_usage: on any first line of /proc/stat of CpuLines,
\* with any sample of CpuSamples, or none yet, in its static variables.
CpuSamples ==
    {<<user, rest[1], rest[2], idle, iowait, rest[3], rest[4], rest[5]>> :
        user \in {0, 100, 200}, idle \in {0, 100}, iowait \in {0, 3},
        rest \in {<<0, 0, 0, 0, 0>>, <<1, 0, 0, 0, 0>>, <<0, 2, 0, 0, 0>>,
                  <<0, 0, 4, 0, 0>>, <<0, 0, 0, 8, 0>>, <<0, 0, 0, 0, 16>>}}

CpuLines == CpuSamples \cup {<<>>}

CpuInit ==
    /\ pc = "get_cpu_usage"
    /\ tracker \in {[NoSamples EXCEPT !.cpu = s] : s \in CpuSamples \cup {NoCpuSample}}
    /\ kern \in {[BootKernel EXCEPT !.cpu = c] : c \in CpuLines}
    /\ old_tracker = tracker
    /\ metric_created = Metrics
    /\ init_failure = NoFailure
    /\ called = {}
    /\ idx = 3
    /\ usage = FromInt(0)
    /\ lock = "free"
    /\ gauge = [m \in Metrics |-> FromInt(0)]
    /\ registry = Registered
    /\ flags = [NoFlags EXCEPT !.flag_cpu = TRUE]
    /\ sampling_interval = 1
    /\ scenario = "kernel"
    /\ cycle = 1
    /\ expo = "serving"
    /\ served = {}
    /\ doc = MissingFile
    /\ config = NULL
    /\ old_flags = NoFlags
    /\ read_failed = FALSE
    /\ invoked = {}
    /\ writer = "none"

CpuCall ==
    /\ pc = "get_cpu_usage"
    /\ LET r == get_cpu_usage(kern, tracker.cpu)
       IN /\ usage' = r.ret
          /\ tracker' = [tracker EXCEPT !.cpu = r.prev]
    /\ old_tracker' = tracker
    /\ called' = called \cup {"cpu_usage_percentage"}
    /\ invoked' = invoked \cup {"cpu_usage_percentage"}
    /\ read_failed' = ReaderFails("cpu_usage_percentage", kern)
    /\ pc' = "returned"
    /\ UNCHANGED <<idx, lock, gauge, registry, flags, sampling_interval, kern, expo, served,
                   scenario, cycle, doc, config, old_flags, writer, metric_created, init_failure>>

CpuNext == CpuCall

CpuSpec == CpuInit /\ [][CpuNext]_vars

\* ------------------------------------------- update_memory_gauge on its own
\* One call of update_memory_gauge: on any /proc/meminfo of MemInfos, the
\* gauge holding what an earlier cycle published, or nothing yet.
MemInfos ==
    {[BootKernel EXCEPT !.meminfo_open = FALSE, !.MemTotal = Absent, !.MemAvailable = Absent]}
    \cup {[BootKernel EXCEPT !.MemTotal = total, !.MemAvailable = available] :
              total \in {Absent, <<4>>, <<10>>, <<1000>>, <<2000>>},
              available \in {Absent, <<0>>, <<1>>, <<4>>, <<400>>, <<1000>>}}

MemInit ==
    /\ pc = "update"
    /\ idx = 5
    /\ kern \in {k \in MemInfos :
                    (k.MemTotal # Absent /\ k.MemAvailable # Absent) =>
                        k.MemAvailable[1] <= k.MemTotal[1]}
    /\ gauge \in {[[m \in Metrics |-> FromInt(0)] EXCEPT !["memory_usage_percentage"] = v] :
                      v \in {FromInt(0), FromInt(50)}}
    /\ tracker = NoSamples
    /\ old_tracker = NoSamples
    /\ metric_created = Metrics
    /\ init_failure = NoFailure
    /\ called = {}
    /\ usage = FromInt(0)
    /\ lock = "free"
    /\ registry = Registered
    /\ flags = NoFlags
    /\ sampling_interval = 1
    /\ scenario = "kernel"
    /\ cycle = 1
    /\ expo = "serving"
    /\ served = {}
    /\ doc = MissingFile
    /\ config = NULL
    /\ old_flags = NoFlags
    /\ read_failed = FALSE
    /\ invoked = {}
    /\ writer = "none"

MemNext ==
    \/ update_memory_gauge
    \/ MutexLock
    \/ GaugeSet
    \/ MutexUnlock

MemSpec == MemInit /\ [][MemNext]_vars

\* ------------------------------------------------------------------ claims
\* C1: when the reader of an update_*_gauge operation fails (its pseudo-file
\* cannot be opened, or the labelled field is not found), no write to the
\* gauge happens in that cycle: the update never reaches its prom_gauge_set.
C1_FailedReadNotPublished ==
    pc \in {"lock", "set", "unlock"} => ~read_failed

\* C3: every gauge write happens while the sampling thread holds the lock,
\* and the lock is held for that write only: it is free while a reader runs,
\* while the configuration is reloaded, while the loop sleeps and on return
\* from every update, whether the update published or not.
C3_LockHeldForTheWriteOnly ==
    /\ lock \in {"free", "main"}
    /\ lock = "main" <=> pc \in {"set", "unlock"}

\* The write of an update has been done and the lock is still held.
C3_Witness ==
    pc = "unlock" /\ lock = "main" /\ gauge[Order[idx]] = usage /\ usage # FromInt(0)

\* C4: only the sampling loop writes gauge values: every step that changes a
\* gauge is the prom_gauge_set of an update_*_gauge run by main, none is a
\* step of the exposition thread.
C4_OnlySamplingLoopWrites ==
    [][gauge' # gauge => (pc = "set" /\ pc' = "unlock" /\ writer' = "main" /\ expo' = expo)]_vars

\* The exposition thread served a scrape after the loop wrote a gauge.
C4_Witness ==
    served # {} /\ writer = "main" /\ expo = "serving" /\ gauge["memory_total"] # FromInt(0)

\* The names a document lists in its metrics array.
NamesIn(d) ==
    IF d.metrics # Absent /\ d.metrics[1].type = "array"
    THEN {d.metrics[1].items[i].valuestring :
             i \in {j \in DOMAIN d.metrics[1].items : d.metrics[1].items[j].type = "string"}}
    ELSE {}

FlagsFor(names) ==
    [flag_bandwidth |-> "bandwidth_usage" \in names,
     flag_change |-> "change_contexts" \in names,
     flag_cpu |-> "cpu_usage_percentage" \in names,
     flag_disk |-> "disk_usage_percentage" \in names]

\* C5: after every successful load, each of the four flags is on if and only
\* if its name occurs in the metrics list of the document, whatever the
\* flags were before.
C5_FlagsMatchListedNames ==
    (pc = "loaded" /\ config # NULL) => flags = FlagsFor(NamesIn(doc))

CpuOnly == <<JsonArray(<<JsonString("cpu_usage_percentage")>>)>>

NoMetrics == <<JsonArray(<<>>)>>

\* C6: once a reload has loaded metrics ["cpu_usage_percentage"], only the
\* CPU flag is on and the CPU reader is the only gated reader of the next
\* cycle; once a reload has loaded metrics [], the CPU flag is off and the
\* CPU reader is not called in the cycle after it.
C6_CpuGateFollowsReload ==
    (config # NULL /\ pc # "crashed") =>
        /\ doc.metrics = CpuOnly =>
              /\ flags = FlagsFor({"cpu_usage_percentage"})
              /\ pc # "sleep" => invoked \cap Gated \subseteq {"cpu_usage_percentage"}
              /\ pc = "reload" => "cpu_usage_percentage" \in invoked
        /\ doc.metrics = NoMetrics =>
              /\ ~flags.flag_cpu
              /\ pc # "sleep" => "cpu_usage_percentage" \notin invoked

\* The CPU reader ran in the second cycle, then [] was loaded and the third
\* cycle ran to its end without it.
C6_Witness ==
    /\ cycle = 3 /\ pc = "reload"
    /\ doc.metrics = NoMetrics /\ config # NULL
    /\ tracker.cpu # NoCpuSample
    /\ "cpu_usage_percentage" \notin invoked

\* C7: when the configuration file cannot be opened or parsed, the load
\* returns no Config, the four flags are what they were before the load, and
\* the loop goes on to its sleep.
C7_FailedLoadKeepsFlags ==
    (pc \in {"sleep", "crashed"} /\ (~doc.readable \/ ~doc.parses)) =>
        (pc = "sleep" /\ config = NULL /\ flags = old_flags)

\* A load failed while a flag was on.
C7_Witness ==
    pc = "sleep" /\ ~doc.parses /\ doc.readable /\ flags.flag_cpu /\ config = NULL

\* C8: when the document parses and its metrics field is absent or is not an
\* array, the four flags are what they were before the load.
C8_NoMetricsArrayKeepsFlags ==
    (pc = "loaded" /\ doc.parses
        /\ (doc.metrics = Absent \/ doc.metrics[1].type # "array")) =>
        flags = old_flags

\* C9: the duration the loop sleeps is at least 1 second in every cycle.
C9_SleepsAtLeastOneSecond ==
    sampling_interval >= 1

\* C10: when load_config parses a document whose sampling_interval field is
\* absent or is not a number, the sampling interval of the Config is 1.
C10_IntervalDefaultsToOne ==
    (pc \in {"loaded", "crashed"} /\ doc.parses
        /\ (doc.sampling_interval = Absent \/ doc.sampling_interval[1].type # "number")) =>
        (config # NULL /\ config[1].sampling_interval = 1)

\* A document without a numeric sampling_interval has been loaded.
C10_Witness ==
    /\ pc = "loaded" /\ doc.parses /\ config # NULL
    /\ doc.sampling_interval # Absent /\ doc.sampling_interval[1].type = "string"
    /\ config[1].metrics_count = 2

\* The delta of a cumulative counter, clamped to zero when the counter went
\* down.
ClampedDelta(current, previous) ==
    IF current >= previous THEN current - previous ELSE 0

\* C11: in the disk-usage and bandwidth trackers the delta behind the rate is
\* current - previous when current >= previous and 0 when current < previous,
\* never a wrapped-around unsigned value: the value a tracker returns for
\* publication is the one computed from the clamped deltas (for the
\* bandwidth, over a positive elapsed time).
C11_DeltasClampedAtZero ==
    /\ (pc = "lock" /\ Order[idx] = "disk_usage_percentage") =>
          usage = Dbl((ClampedDelta(tracker.disk.read_sectors, old_tracker.disk.read_sectors)
                       + ClampedDelta(tracker.disk.write_sectors, old_tracker.disk.write_sectors))
                      * SECTOR_SIZE, 1024 * 1024)
    /\ (pc = "lock" /\ Order[idx] = "bandwidth_usage" /\ old_tracker.net.since > 0) =>
          usage = DDiv(Dbl(ClampedDelta(tracker.net.rx_bytes, old_tracker.net.rx_bytes)
                           + ClampedDelta(tracker.net.tx_bytes, old_tracker.net.tx_bytes),
                           1024 * 1024),
                       Dbl(old_tracker.net.since, CLOCKS_PER_SEC))

\* The gauges fed by a rate tracker.
RateMetrics == {"cpu_usage_percentage", "disk_usage_percentage", "bandwidth_usage"}

\* C12: the first call of each rate tracker after the start of the process
\* reports zero, a degenerate value (infinite or not a number) or the error
\* value, not a delta taken against the all-zero initial baseline.
C12_FirstCallReportsNoRate ==
    [][\A m \in RateMetrics :
          (m \in called' /\ m \notin called) =>
              (usage' \in {FromInt(0), ERROR_FLOAT} \/ usage'.d = 0)]_vars

\* The sum of the eight jiffies fields, idle + iowait, and the deltas of both
\* between two samples, in unsigned long long.
JiffiesTotal(c) == (c[1] + c[2] + c[3] + c[4] + c[5] + c[6] + c[7] + c[8]) % ULLMod

JiffiesIdle(c) == (c[4] + c[5]) % ULLMod

TotalDelta(cur, prev) == (JiffiesTotal(cur) - JiffiesTotal(prev)) % ULLMod

IdleDelta(cur, prev) == (JiffiesIdle(cur) - JiffiesIdle(prev)) % ULLMod

\* C13: a call of get_cpu_usage that reads the eight fields and finds
\* total_delta > 0 returns 100 * (total_delta - idle_delta) / total_delta,
\* total being the sum of the eight fields and idle being idle + iowait, the
\* deltas taken against the stored sample, and stores the current sample; a
\* failed call stores nothing; for the stored sample {user 100, idle 100}
\* and the current sample {user 200, idle 100} the result is 100.
C13_CpuUsageFormula ==
    pc = "returned" =>
        LET prev == old_tracker.cpu
            cur == kern.cpu
        IN /\ (cur # <<>> /\ TotalDelta(cur, prev) > 0) =>
                 /\ usage = DMulInt(Dbl((TotalDelta(cur, prev) - IdleDelta(cur, prev)) % ULLMod,
                                        TotalDelta(cur, prev)), 100)
                 /\ tracker.cpu = cur
           /\ usage = ERROR_FLOAT => tracker.cpu = prev
           /\ (prev = <<100, 0, 0, 100, 0, 0, 0, 0>> /\ cur = <<200, 0, 0, 100, 0, 0, 0, 0>>) =>
                 usage = FromInt(100)

\* The call of the example has returned.
C13_Witness ==
    /\ pc = "returned"
    /\ old_tracker.cpu = <<100, 0, 0, 100, 0, 0, 0, 0>>
    /\ kern.cpu = <<200, 0, 0, 100, 0, 0, 0, 0>>
    /\ tracker.cpu = kern.cpu
    /\ usage = FromInt(100)

\* C14: a call of get_cpu_usage that finds the total jiffies delta between
\* the stored sample and the current one to be 0 returns the error value
\* -1.0 (it does not divide), and update_cpu_gauge returns to main without
\* writing the CPU gauge.
C14_ZeroTotalDeltaIsAnError ==
    [][(/\ pc = "update" /\ Order[idx] = "cpu_usage_percentage"
        /\ "cpu_usage_percentage" \in invoked' /\ "cpu_usage_percentage" \notin invoked
        /\ kern.stat_open /\ Len(kern.cpu) = 8
        /\ TotalDelta(kern.cpu, tracker.cpu) = 0)
       => (/\ usage' = ERROR_FLOAT
           /\ pc' = "update" /\ idx' = idx + 1
           /\ gauge' = gauge)]_vars

\* The CPU gauge was published in one cycle; in the next the counters had
\* not moved and update_cpu_gauge returned without a write.
C14_Witness ==
    /\ pc = "update" /\ idx = 4
    /\ "cpu_usage_percentage" \in invoked
    /\ kern.stat_open /\ Len(kern.cpu) = 8
    /\ TotalDelta(kern.cpu, old_tracker.cpu) = 0
    /\ usage = ERROR_FLOAT
    /\ gauge["cpu_usage_percentage"] = FromInt(50)

\* C15: get_average_bandwidth does not divide by an elapsed time that is
\* zero or negative: on its first call, and on a call where clock() is not
\* above the stored last_time, it returns zero or the error value.
C15_NoDivisionByZeroElapsed ==
    [][(/\ pc = "update" /\ Order[idx] = "bandwidth_usage"
        /\ "bandwidth_usage" \in invoked' /\ "bandwidth_usage" \notin invoked
        /\ ("bandwidth_usage" \notin called \/ tracker.net.since <= 0))
       => usage' \in {FromInt(0), ERROR_FLOAT}]_vars

\* C16: when /proc/meminfo shows both MemTotal and MemAvailable,
\* get_memory_usage returns 100 * (total - available) / total, which is 60
\* for total = 1000 and available = 400; when either is missing it returns
\* -1.0 and update_memory_gauge does not write the gauge.
C16_MemoryUsageFormula ==
    "memory_usage_percentage" \in invoked =>
        LET found == /\ kern.meminfo_open
                     /\ kern.MemTotal # Absent
                     /\ kern.MemAvailable # Absent
        IN /\ found =>
                 usage = DMulInt(Dbl((kern.MemTotal[1] - kern.MemAvailable[1]) % ULLMod,
                                     kern.MemTotal[1]), 100)
           /\ (found /\ kern.MemTotal[1] = 1000 /\ kern.MemAvailable[1] = 400) =>
                 usage = FromInt(60)
           /\ ~found =>
                 /\ usage = ERROR_FLOAT
                 /\ pc = "update"
                 /\ gauge["memory_usage_percentage"] \in {FromInt(0), FromInt(50)}

\* The static variables of the tracker behind a gated metric (the context
\* switch reader has none).
TrackerOf(m, tr) ==
    IF m = "cpu_usage_percentage" THEN <<tr.cpu>>
    ELSE IF m = "disk_usage_percentage" THEN <<tr.disk>>
    ELSE IF m = "bandwidth_usage" THEN <<tr.net>>
    ELSE <<>>

\* C17: while the loop body runs with the flag of a gated metric off, no step
\* calls that metric's reader, changes its gauge (the last published value
\* stays, it is not set to zero) or changes its tracker's stored sample.
C17_DisabledMetricUntouched ==
    [][\A m \in Gated :
          (~FlagOf(m, flags) /\ pc \in {"update", "lock", "set", "unlock"}) =>
              /\ m \notin invoked'
              /\ gauge'[m] = gauge[m]
              /\ TrackerOf(m, tracker') = TrackerOf(m, tracker)]_vars

\* The disk gauge was published in the second cycle, the reload then
\* disabled it, and the third cycle has run its body.
C17_Witness ==
    /\ cycle = 3 /\ pc = "reload"
    /\ ~flags.flag_disk
    /\ "disk_usage_percentage" \in called
    /\ "disk_usage_percentage" \notin invoked
    /\ gauge["disk_usage_percentage"] # FromInt(0)
    /\ tracker.disk # NoDiskSample

\* Where main is while it runs the sampling loop.
LoopPcs == {"update", "lock", "set", "unlock", "reload", "sleep"}

\* The updates main calls in every cycle, whatever the flags.
AlwaysOn == Metrics \ Gated

C19_ExpositionNeverBlocksSampling ==
    /\ [](pc = "lock" => (lock = "free" /\ ENABLED MutexLock))
    /\ (pc = "lock") ~> (pc = "set" /\ lock = "main")

\* Main has taken the lock while the daemon was serving scrapes.
C19_Witness ==
    pc = "set" /\ lock = "main" /\ expo = "serving" /\ served # {} /\ cycle = 2

\* C20: when pthread_create fails main returns EXIT_FAILURE at once: a main
\* that is past the creation without an exposition thread has returned the
\* failure code, and in that state no reader was ever called, no gauge was
\* written, no configuration was loaded and no request was served.
C20_NoThreadNoSampling ==
    /\ (expo = "not_created" /\ pc \notin {"init_metrics", "create_thread"}) =>
           pc = "exit_failure"
    /\ pc = "exit_failure" =>
           /\ expo = "not_created"
           /\ cycle = 1 /\ idx = 1
           /\ called = {} /\ invoked = {}
           /\ writer = "none" /\ lock = "free"
           /\ gauge = [m \in Metrics |-> FromInt(0)]
           /\ config = NULL /\ flags = NoFlags /\ ~read_failed
           /\ tracker = NoSamples
           /\ served = {}

\* pthread_create has failed after init_metrics registered the gauges.
C20_Witness ==
    pc = "exit_failure" /\ expo = "not_created" /\ registry = Registered

\* C21: a listener that cannot be started is fatal to startup: once
\* promhttp_start_daemon has failed, main takes no further step of the
\* sampling loop (no reader is called, no gauge is written, no reload and no
\* sleep is done).
C21_NoListenerNoSampling ==
    [][expo = "no_daemon" =>
          (pc' = pc /\ idx' = idx /\ cycle' = cycle /\ gauge' = gauge /\ flags' = flags)]_vars

\* C22: after init_metrics every gauge the sampling loop writes, disk_stats
\* included, is registered in the registry and served to a scrape: the gauge
\* an update is publishing is registered, and a scrape renders all thirteen
\* gauges.
C22_EveryWrittenGaugeIsServed ==
    /\ pc \in {"lock", "set", "unlock"} => Order[idx] \in registry
    /\ served # {} => served = Metrics

\* C23: when one gauge fails to be created or registered in init_metrics,
\* the process goes on and that gauge alone is missing: every other gauge
\* init_metrics registers is in the registry and is served by a scrape,
\* and the gauge that failed is in no scrape.
C23_OnlyTheFailedGaugeIsMissing ==
    (init_failure.step # "none" /\ pc \notin {"init_metrics", "crashed"}) =>
        /\ registry = Registered \ {init_failure.metric}
        /\ served # {} => served = Registered \ {init_failure.metric}

\* The error value of the reader of metric m, as its update_*_gauge holds
\* it: -1.0 of a double reader (scaled by get_memory_usage_2), and
\* (unsigned long long)-1 of an unsigned reader.
ErrorValueOf(m) ==
    IF m \in {"change_contexts", "total_processes", "major_page_faults", "minor_page_faults"}
    THEN FromInt(ULLONG_MAX)
    ELSE IF m = "memory_usage_2" THEN DDiv(ERROR_FLOAT, FromInt(PORCENTAGE_INT))
    ELSE ERROR_FLOAT

\* C24: a reader that does not find its label behaves as one that cannot
\* open its file: every call of a reader that meets either failure returns
\* the reader's error value, never 0 or another reading.
C24_LabelNotFoundIsAnError ==
    [][\A m \in Metrics :
          (m \in invoked' /\ m \notin invoked /\ read_failed') => usage' = ErrorValueOf(m)]_vars

\* C25: the reload is idempotent and has no hysteresis: loading a document a
\* second time leaves the flags the first load left, and the flags a
\* successful load leaves are those every load of the same document leaves,
\* whatever the flags were before it.
C25_ReloadIsIdempotent ==
    /\ pc = "reloaded" => flags = old_flags
    /\ (pc \in {"loaded", "reloaded"} /\ config # NULL) =>
           \A before \in FlagStates : \A r \in load_config(doc, before) :
               ~r.crashed => r.flags = flags

\* C26: the four flags are changed by the configuration reload only: every
\* step that changes a flag is the reload step of main; no reader, no
\* update_*_gauge, no sleep and no step of the exposition thread changes one.
C26_OnlyReloadChangesFlags ==
    [][flags' # flags =>
          (pc = "reload" /\ pc' \in {"sleep", "crashed"} /\ old_flags' = flags
              /\ gauge' = gauge /\ expo' = expo /\ cycle' = cycle)]_vars

\* The reload of the second cycle has switched flags on, and the third
\* cycle has slept and run its gated updates with the flags as that reload
\* left them.
C26_Witness ==
    /\ cycle = 3 /\ pc = "update" /\ idx = 5
    /\ flags # NoFlags /\ old_flags = NoFlags
    /\ invoked # {}

\* The order of the updates within a cycle, as stated: the four gated ones,
\* then the nine always-on ones.
StatedOrder ==
    <<"bandwidth_usage", "change_contexts", "cpu_usage_percentage", "disk_usage_percentage",
      "memory_usage_percentage", "network_usage", "major_page_faults", "minor_page_faults",
      "memory_available", "memory_total", "memory_usage_2", "disk_stats",
      "total_processes">>

\* C27: the steps of a cycle happen in one fixed order. A reader is called
\* when exactly the enabled updates before it in the stated order have run;
\* the reload starts when all nine always-on updates have run and leads to
\* the sleep; a new cycle starts from the sleep only; and a gauge is written
\* for an update of the running cycle only, never once the cycle has
\* reached its reload.
C27_FixedOrderWithinCycle ==
    [][/\ \A m \in Metrics :
             (m \in invoked' /\ m \notin invoked) =>
                 /\ invoked = {x \in Before(StatedOrder, m) : x \in Gated => FlagOf(x, flags)}
                 /\ m \in Gated => FlagOf(m, flags)
       /\ (pc' = "reload" /\ pc # "reload") =>
             invoked' = {x \in Metrics : x \in Gated => FlagOf(x, flags)}
       /\ (pc = "reload" /\ pc' # "reload") => pc' \in {"sleep", "crashed"}
       /\ cycle' # cycle => (pc = "sleep" /\ cycle' = cycle + 1 /\ invoked' = {})
       /\ gauge' # gauge =>
             /\ pc \notin {"reload", "sleep"}
             /\ \E m \in invoked : gauge' = [gauge EXCEPT ![m] = usage]
      ]_vars

\* A cycle with the four flags on has run all thirteen updates and its
\* reload.
C27_Witness ==
    cycle = 2 /\ pc = "sleep" /\ invoked = Metrics /\ writer = "main"

\* The raw sample each rate tracker takes from a kernel snapshot.
RawCpu(k) == k.cpu

RawDisk(k) ==
    LET lines == IF k.diskstats_open THEN k.sda ELSE <<>>
    IN [read_sectors |-> SumOver(lines, [l \in Range(lines) |-> l.rd_sec]),
        write_sectors |-> SumOver(lines, [l \in Range(lines) |-> l.wr_sec])]

RawNet(k) ==
    [rx_bytes |-> SumOver(k.ifaces, [l \in Range(k.ifaces) |-> l.rx]),
     tx_bytes |-> SumOver(k.ifaces, [l \in Range(k.ifaces) |-> l.tx])]

\* C28: after every call of a rate tracker that obtained a current raw
\* sample, the stored previous sample is that current sample: on the first
\* call too, and on a call that reports an error as its rate.
C28_PreviousBecomesCurrent ==
    [][/\ ("cpu_usage_percentage" \in invoked' /\ "cpu_usage_percentage" \notin invoked
            /\ kern.stat_open /\ Len(kern.cpu) = 8) =>
              tracker'.cpu = RawCpu(kern)
       /\ ("disk_usage_percentage" \in invoked' /\ "disk_usage_percentage" \notin invoked
            /\ kern.popen_ok) =>
              tracker'.disk = RawDisk(kern)
       /\ ("bandwidth_usage" \in invoked' /\ "bandwidth_usage" \notin invoked
            /\ kern.netdev_open) =>
              (tracker'.net.rx_bytes = RawNet(kern).rx_bytes
                  /\ tracker'.net.tx_bytes = RawNet(kern).tx_bytes)
      ]_vars

\* C29: get_average_bandwidth reports the bytes moved since the previous
\* call, in MB, divided by the wall-clock seconds between the two calls,
\* the time the loop slept included. Between two calls lies at least the
\* last sleep of the loop, sampling_interval seconds: for counters that did
\* not go down the rate is therefore at most the MB moved divided by
\* sampling_interval, and 0 when nothing moved.
C29_BandwidthPerWallClockSecond ==
    [][("bandwidth_usage" \in invoked' /\ "bandwidth_usage" \notin invoked
           /\ "bandwidth_usage" \in called /\ kern.netdev_open /\ sampling_interval >= 1
           /\ RawNet(kern).rx_bytes >= tracker.net.rx_bytes
           /\ RawNet(kern).tx_bytes >= tracker.net.tx_bytes) =>
          LET moved == (RawNet(kern).rx_bytes - tracker.net.rx_bytes)
                           + (RawNet(kern).tx_bytes - tracker.net.tx_bytes)
              most == Dbl(moved, 1024 * 1024 * sampling_interval)
          IN IF moved = 0 THEN usage' = FromInt(0)
             ELSE /\ usage'.d # 0
                  /\ DDiv(usage', most).n <= DDiv(usage', most).d
      ]_vars

\* C30: in every reachable state every gauge holds a value that is not
\* negative: no update_*_gauge writes a negative value, the -1.0 of a
\* failed reader least of all.
C30_GaugesNeverNegative ==
    \A m \in Metrics : ~IsNaN(gauge[m]) /\ gauge[m].n >= 0 /\ gauge[m] # ERROR_FLOAT

\* get_memory_usage has failed with -1.0 in a cycle after the one that
\* published 60 percent, and the gauge still holds the 60.
C30_Witness ==
    /\ pc = "update" /\ idx = 6 /\ cycle >= 2
    /\ "memory_usage_percentage" \in invoked
    /\ usage = ERROR_FLOAT
    /\ gauge["memory_usage_percentage"] = FromInt(60)

\* A double between 0 and 100.
InPercentRange(x) == x.d > 0 /\ x.n >= 0 /\ x.n <= 100 * x.d

\* C31: every value get_cpu_usage or get_memory_usage returns is the error
\* value -1.0 or a percentage from 0 to 100, whatever the kernel counters
\* are, and the CPU and memory percentage gauges always hold a value from 0
\* to 100.
C31_PercentagesWithinRange ==
    [][/\ \A m \in {"cpu_usage_percentage", "memory_usage_percentage"} :
             (m \in invoked' /\ m \notin invoked) =>
                 (usage' = ERROR_FLOAT \/ InPercentRange(usage'))
       /\ InPercentRange(gauge'["cpu_usage_percentage"])
       /\ InPercentRange(gauge'["memory_usage_percentage"])
      ]_vars

\* The gated metrics a document enables.
EnabledBy(d) == NamesIn(d) \cap Gated

C33_FirstCycleRunsNoGatedReader ==
    (cycle = 1 /\ pc \notin {"sleep", "crashed"}) =>
        /\ flags = NoFlags
        /\ invoked \cap Gated = {} /\ called \cap Gated = {}
        /\ \A m \in Gated : gauge[m] = FromInt(0)
        /\ tracker = NoSamples

\* The first cycle has run its nine always-on updates and stands at its
\* reload, with a gauge published.
C33_Witness ==
    /\ cycle = 1 /\ pc = "reload"
    /\ invoked = Metrics \ Gated
    /\ writer = "main" /\ gauge["memory_total"] # FromInt(0)

\* The gated metrics whose reader computes a rate against a stored sample.
RateMetricsGated == {"cpu_usage_percentage", "disk_usage_percentage", "bandwidth_usage"}

\* The sample the reader of rate metric m stores in cycle c of a run of the
\* "gap" scenario, as it is found t clock ticks later.
SampleTaken(m, c, t) ==
    IF m = "cpu_usage_percentage" THEN <<GrowingKernel(c).cpu>>
    ELSE IF m = "disk_usage_percentage"
         THEN <<[read_sectors |-> GrowingKernel(c).sda[1].rd_sec,
                 write_sectors |-> GrowingKernel(c).sda[1].wr_sec]>>
    ELSE <<[rx_bytes |-> GrowingKernel(c).ifaces[1].rx,
            tx_bytes |-> GrowingKernel(c).ifaces[1].tx, since |-> t]>>

\* The value of rate metric m computed over the cycles from + 1 .. to of a
\* run of the "gap" scenario: every cycle uses one clock tick.
RateOver(m, from, to) ==
    LET a == GrowingKernel(from)
        b == GrowingKernel(to)
    IN IF m = "cpu_usage_percentage"
       THEN Dbl(100 * (TotalDelta(b.cpu, a.cpu) - IdleDelta(b.cpu, a.cpu)), TotalDelta(b.cpu, a.cpu))
       ELSE IF m = "disk_usage_percentage"
       THEN Dbl(((b.sda[1].rd_sec - a.sda[1].rd_sec) + (b.sda[1].wr_sec - a.sda[1].wr_sec)) * SECTOR_SIZE,
                1024 * 1024)
       ELSE DDiv(Dbl((b.ifaces[1].rx - a.ifaces[1].rx) + (b.ifaces[1].tx - a.ifaces[1].tx), 1024 * 1024),
                 Dbl(to - from, CLOCKS_PER_SEC))

\* C34: when the reader of a gated rate metric (CPU, disk usage, bandwidth)
\* ran in cycle 2, was skipped in cycle 3 with its flag off and runs again in
\* cycle 4, its tracker still holds the sample of cycle 2 when it is called,
\* and the value it returns is the rate over cycles 3 and 4 together, which
\* differs from the rate over cycle 4 alone.
C34_FirstReadingSpansDisabledPeriod ==
    [][\A m \in RateMetricsGated :
          (/\ scenario = "gap" /\ cycle = 4
           /\ m \in invoked' /\ m \notin invoked
           /\ m \in called /\ ~FlagOf(m, old_flags)) =>
              /\ TrackerOf(m, tracker) = SampleTaken(m, 2, 2)
              /\ usage' = RateOver(m, 2, 4)
              /\ usage' # RateOver(m, 3, 4)]_vars

\* The CPU reader has just run in cycle 4 after a cycle in which it was
\* skipped, and returned 12 busy jiffies out of 14: the deltas since cycle 2.
C34_Witness ==
    /\ scenario = "gap" /\ cycle = 4 /\ pc = "lock"
    /\ Order[idx] = "cpu_usage_percentage"
    /\ "cpu_usage_percentage" \in invoked
    /\ ~old_flags.flag_cpu
    /\ tracker.cpu = GrowingKernel(4).cpu
    /\ old_tracker.cpu = GrowingKernel(2).cpu
    /\ usage = Dbl(1200, 14)

\* The entries of config->metrics the flag-derivation loop has read when
\* load_config is over: all of them, or those up to the entry whose read
\* ended the process.
EntriesRead ==
    IF config = NULL THEN {}
    ELSE IF pc = "crashed"
         THEN {i \in 1 .. config[1].metrics_count :
                  \A j \in 1 .. i - 1 : config[1].metrics[j] # Unreadable}
         ELSE 1 .. config[1].metrics_count

\* Entry i of config->metrics was assigned by the copy loop: element i of the
\* document's metrics array is a string.
AssignedFromDocument(i) ==
    /\ doc.metrics # Absent /\ doc.metrics[1].type = "array"
    /\ i \in DOMAIN doc.metrics[1].items
    /\ doc.metrics[1].items[i].type = "string"
    /\ config[1].metrics[i] = doc.metrics[1].items[i].valuestring

\* C35: when load_config is over, every entry of the metrics list that the
\* flag-derivation loop compared against the recognized names was assigned
\* from the document, also when the metrics array of the document holds an
\* element that is not a string.
C35_LoopReadsAssignedEntriesOnly ==
    pc \in {"loaded", "crashed"} => \A i \in EntriesRead : AssignedFromDocument(i)

====
